---- MODULE Spec2Model ----
(***************************************************************************)
(* Model of seltran's editor (src/src/seltran/gui/editor.py) and its UI    *)
(* call queue (src/src/seltran/gui/tk_call_queue.py).                      *)
(*                                                                         *)
(* The text widget is a sequence of cells, one per character, each with    *)
(* the set of tags on that character; the last cell is the widget's final  *)
(* newline, which can be tagged but never deleted.  Positions are 0-based  *)
(* character offsets ("1.0+Nc"); position Len(cells) is the index "end".   *)
(* The buffer is kept to one line.                                        *)
(***************************************************************************)
EXTENDS Integers, Sequences, FiniteSets, TLC

\* Bounds of the model.
MaxLen == 2       \* characters in the buffer, the final newline not counted
MaxPasses == 2    \* detect_tokens() calls, hence worker threads, in one run
MaxSubstLen == 4  \* characters in the buffer when a longer file was imported

Min(a, b) == IF a < b THEN a ELSE b
Max(a, b) == IF a > b THEN a ELSE b

\* ---------------------------------------------------------------- tags
TAG_TRANSLATABLE == <<"translatable">>
TAG_SELECTED_TOKEN == <<"selected">>
TAG_TOKEN(id) == <<"_token-", id>>
is_token_tag(tag) == tag[1] = "_token-"

\* ---------------------------------------------------------- characters
NL == "\n"
\* The characters: "a" a Japanese noun character, "o" a Japanese particle
\* character, "." a Japanese full stop; "T", "-" and " " come with a
\* substitution.  The user types "a" and imports the files of ImportTexts.
TypedChars == {"a"}
\* A dictionary gloss is upper-case Latin text (translator._format_english).
Translations == {<<"T">>}
ImportTexts == {<<"a", "o">>}
LongTexts == {<<"a", "o", "a">>, <<"a", "a", "o">>}

VARIABLES
    cells,       \* the text widget: Seq of [ch, tags], last cell the final newline
    locked,      \* the widget's state is DISABLED
    status,      \* Editor.status
    token_tags,  \* Editor.token_tags: token tag -> Token
    tokens,      \* Editor.tokens: the Doc of the latest analysis, <<>> for None
    nextId,      \* token tags created so far (a token tag's id is its creation rank)
    queue,       \* TkCallQueue._call_queue
    signals,     \* <<ui_call>> events pending in Tk's event queue
    uiMode,      \* "idle": the event loop waits; "draining": inside _ui_call_handler;
                 \* "finishing": inside UIFuture.run of the call just taken
    pc,          \* per worker thread: its position in _threaded_nlp_task
    text,        \* per worker thread: the local variable text
    future,      \* per worker thread: text_future, [done, result]: the event
                 \* _finish_event is set, _result is None (<<>>) or <<value>>
    batch,       \* per worker thread: the calls of queue_ui_calls not yet put
    enq,         \* calls put on the queue so far
    lastRun,     \* position in enqueue order of the call run last
    lastK        \* per worker thread: how many of its calls have run

vars == <<cells, locked, status, token_tags, tokens, nextId, queue, signals,
          uiMode, pc, text, future, batch, enq, lastRun, lastK>>

Workers == 1..MaxPasses

\* ------------------------------------------------------- the text widget
Cell(ch, tags) == [ch |-> ch, tags |-> tags]

\* An index past the end of the text is the index "end".
Clamp(c, p) == Min(p, Len(c))

\* Text.get("1.0", "end-1c")
GetText(c) == [p \in 1..(Len(c) - 1) |-> c[p].ch]

HasTag(c, tag, p) == p >= 0 /\ p < Len(c) /\ tag \in c[p + 1].tags

\* Text.tag_names(): every tag that is on some character.
TagNames(c) == UNION {c[p].tags : p \in 1..Len(c)}

\* EditorTextbox.tag_ranges_: the maximal runs of a tag, as [start, end).
RunEnd(c, tag, s) == CHOOSE e \in (s + 1)..Len(c) :
    /\ \A q \in s..(e - 1) : HasTag(c, tag, q)
    /\ ~HasTag(c, tag, e)
IndexRange(s, e) == [start |-> s, end |-> e]
tag_ranges_(c, tag) ==
    {IndexRange(s, RunEnd(c, tag, s)) :
        s \in {p \in 0..(Len(c) - 1) : HasTag(c, tag, p) /\ ~HasTag(c, tag, p - 1)}}
\* tag_ranges_(tag)[0]
FirstRange(c, tag) == CHOOSE r \in tag_ranges_(c, tag) :
    \A r2 \in tag_ranges_(c, tag) : r.start <= r2.start

is_index_in_range(index, start, end) == start <= index /\ index < end

is_range_in_range(c, small_range, large_range) ==
    /\ is_index_in_range(small_range.start, large_range.start, large_range.end)
    /\ is_index_in_range(small_range.end, large_range.start,
                         Clamp(c, large_range.end + 1))

\* Text.tag_add(tag, start, end)
tag_add(c, tag, start, end) ==
    [p \in 1..Len(c) |->
        IF Clamp(c, start) <= p - 1 /\ p - 1 < Clamp(c, end)
        THEN Cell(c[p].ch, c[p].tags \cup {tag}) ELSE c[p]]

\* EditorTextbox.remove_all_of_tag / Text.tag_remove(tag, "1.0", "end")
remove_all_of_tag(c, tag) ==
    [p \in 1..Len(c) |-> Cell(c[p].ch, c[p].tags \ {tag})]

\* Variant: the tags of the deleted characters stay, on the character that
\* follows them.
TkDelete_keeping_tags(c, isLocked, start, end) ==
    LET s == Clamp(c, start)
        e == Min(end, Len(c) - 1)
        kept == UNION {c[k].tags : k \in (s + 1)..e}
    IN IF isLocked \/ s >= e THEN c
       ELSE SubSeq(c, 1, s)
            \o <<Cell(c[e + 1].ch, c[e + 1].tags \cup kept)>>
            \o SubSeq(c, e + 2, Len(c))

\* Text.delete(start, end); the final newline is never deleted.  A DISABLED
\* widget ignores it.
TkDelete(c, isLocked, start, end) ==
    LET s == Clamp(c, start)
        e == Min(end, Len(c) - 1)
    IN IF isLocked \/ s >= e THEN c
       ELSE SubSeq(c, 1, s) \o SubSeq(c, e + 1, Len(c))

\* Text.insert(index, chars) without a tag list: the new characters get the
\* tags that are on both the character before and the character after the
\* insertion point.  At "end" the text goes before the final newline.  A
\* DISABLED widget ignores it.
TkInsert(c, isLocked, index, chars) ==
    LET s == Min(index, Len(c) - 1)
        inherited == IF s > 0 THEN c[s].tags \cap c[s + 1].tags ELSE {}
    IN IF isLocked THEN c
       ELSE SubSeq(c, 1, s)
            \o [k \in 1..Len(chars) |-> Cell(chars[k], inherited)]
            \o SubSeq(c, s + 1, Len(c))

\* Variant: only the tags with exactly the range.
get_tags_with_equal_range(c, tag_range) ==
    {tag \in TagNames(c) : tag_range \in tag_ranges_(c, tag)}

\* EditorTextbox.get_tags_containing_range: the tags with a range that
\* contains tag_range.
get_tags_containing_range(c, tag_range) ==
    {tag \in TagNames(c) :
        \E checked_range \in tag_ranges_(c, tag) :
            is_range_in_range(c, tag_range, checked_range)}

\* EditorTextbox.get_tags_of_exactly_range
get_tags_of_exactly_range(c, tag_range) ==
    {tag \in TagNames(c) : tag_range \in tag_ranges_(c, tag)}

\* EditorTextbox.tag_query(is_token_tag): the token tags that have a range.
tag_query(c) == {tag \in TagNames(c) : is_token_tag(tag)}

\* EditorTextbox.replace_text: the range it returns.
replace_text_result(index_range, new_text) ==
    IndexRange(index_range.start, index_range.start + Len(new_text))

\* Variant of replace_text that deletes as many characters as it inserts.
replace_text_same_length(c, isLocked, index_range, new_text) ==
    LET old_tags == get_tags_containing_range(c, index_range)
        new_range == replace_text_result(index_range, new_text)
        deleted == TkDelete(c, isLocked, new_range.start, new_range.end)
        inserted == TkInsert(deleted, isLocked, index_range.start, new_text)
    IN [p \in 1..Len(inserted) |->
           IF Clamp(inserted, new_range.start) <= p - 1
              /\ p - 1 < Clamp(inserted, new_range.end)
           THEN Cell(inserted[p].ch, inserted[p].tags \cup old_tags)
           ELSE inserted[p]]

\* Variant of replace_text that inserts at the end of the range it deleted.
replace_text_at_end(c, isLocked, index_range, new_text) ==
    LET old_tags == get_tags_containing_range(c, index_range)
        deleted == TkDelete(c, isLocked, index_range.start, index_range.end)
        inserted == TkInsert(deleted, isLocked, index_range.end, new_text)
        new_range == replace_text_result(index_range, new_text)
    IN [p \in 1..Len(inserted) |->
           IF Clamp(inserted, new_range.start) <= p - 1
              /\ p - 1 < Clamp(inserted, new_range.end)
           THEN Cell(inserted[p].ch, inserted[p].tags \cup old_tags)
           ELSE inserted[p]]

\* EditorTextbox.replace_text: the cells afterwards.
replace_text(c, isLocked, index_range, new_text) ==
    LET old_tags == get_tags_containing_range(c, index_range)
        deleted == TkDelete(c, isLocked, index_range.start, index_range.end)
        inserted == TkInsert(deleted, isLocked, index_range.start, new_text)
        new_range == replace_text_result(index_range, new_text)
    IN [p \in 1..Len(inserted) |->
           IF Clamp(inserted, new_range.start) <= p - 1
              /\ p - 1 < Clamp(inserted, new_range.end)
           THEN Cell(inserted[p].ch, inserted[p].tags \cup old_tags)
           ELSE inserted[p]]

\* ------------------------------------------------------- the tokenizer
\* spaCy is outside the repository.  A Doc is a sequence of tokens that
\* cover the text in order without overlap; how the text is cut is the
\* tokenizer's choice, a token's part of speech follows its first character.
TokenLens == {1, 2}

PosOf(ch) ==
    CASE ch = "a" -> "NOUN"
      [] ch = "o" -> "ADV"
      [] ch = "." -> "PUNCT"
      [] ch = "T" -> "NOUN"
      [] ch = "-" -> "PUNCT"
      [] OTHER -> "SPACE"

RECURSIVE Cuts(_)
Cuts(n) ==
    IF n = 0 THEN {<<>>}
    ELSE UNION {{<<l>> \o rest : rest \in Cuts(n - l)} :
                    l \in {x \in TokenLens : x <= n}}

RECURSIVE SumTo(_, _)
SumTo(cut, k) == IF k = 0 THEN 0 ELSE cut[k] + SumTo(cut, k - 1)

\* The Doc of pass `doc` for `txt` cut as `cut`.  A token carries what the
\* editor reads from it: text, idx, i, pos_, len(token.doc), and
\* nbor(1).pos_ ("" for the last token).
MakeDoc(txt, cut, doc) ==
    [i \in 1..Len(cut) |->
        LET idx == SumTo(cut, i - 1)
        IN [text |-> SubSeq(txt, idx + 1, idx + cut[i]),
            idx |-> idx,
            i |-> i - 1,
            pos_ |-> PosOf(txt[idx + 1]),
            doc_len |-> Len(cut),
            nbor_pos_ |-> IF i < Len(cut) THEN PosOf(txt[idx + cut[i] + 1]) ELSE "",
            doc |-> doc]]

nlp(txt, doc) == {MakeDoc(txt, cut, doc) : cut \in Cuts(Len(txt))}

\* translator.is_text_japanese
JapaneseChars == {"a", "o", "."}
is_text_japanese(txt) == \A k \in 1..Len(txt) : txt[k] \in JapaneseChars

\* Settings.filter_should_translate: TokenFilter(include_pos=[NOUN, VERB, ADJ],
\* exclude_foreign=True)
filter_should_translate(token) ==
    token.pos_ \in {"NOUN", "VERB", "ADJ"} /\ is_text_japanese(token.text)

\* translator.universal_to_dictionary_pos(pos) is not None
has_dictionary_pos(pos) == pos \in {"NOUN", "VERB", "ADV"}

\* What the dictionary (Jamdict, outside the repository) may find for a
\* lemma, already formatted by _format_dictionary_gloss, and what
\* get_phonemes may return: a string or nothing.
Glosses == {<<>>, <<"T">>, <<"T", "U">>}
Phonemes == {<<>>, <<"p">>}

\* SelectiveTranslator.get_dictionary_translations, the lookup finding
\* glosses.
get_dictionary_translations(token, glosses) ==
    IF ~has_dictionary_pos(token.pos_) THEN <<>> ELSE glosses

\* Variant of update_possible_translations that does not ask the filter.
update_possible_translations_unfiltered(token, phonemes, glosses) ==
    <<token.text>> \o phonemes \o get_dictionary_translations(token, glosses)

\* Editor.update_possible_translations: the values of the combo box.
update_possible_translations(token, phonemes, glosses) ==
    LET translations == IF filter_should_translate(token)
                        THEN get_dictionary_translations(token, glosses)
                        ELSE <<>>
    IN <<token.text>> \o phonemes \o translations

\* Settings.filter_start_of_new_word applied to a token's part of speech:
\* TokenFilter(include_pos=[VERB, NOUN])
filter_start_of_new_word(pos) == pos \in {"VERB", "NOUN"}

\* ---------------------------------------------------------- the editor
Restrict(f, S) == [x \in S |-> f[x]]

\* Variant of clean_stale_tokens that deletes no entry.
clean_stale_tokens_keeping(c, tt) == tt

\* Variant of clean_stale_tokens with the test inverted: it deletes the
\* entries of the tags that have a range.
clean_stale_tokens_inverted(c, tt) ==
    LET existing_token_tag_names == tag_query(c)
    IN Restrict(tt, {tag \in DOMAIN tt : tag \notin existing_token_tag_names})

\* Editor.clean_stale_tokens: the token mapping afterwards.  tag_delete of
\* a tag that is on no character leaves the cells as they are.
clean_stale_tokens(c, tt) ==
    LET existing_token_tag_names == tag_query(c)
    IN Restrict(tt, {tag \in DOMAIN tt : tag \in existing_token_tag_names})

\* EditorTextbox.overlapping_tag_names for a range of range_size characters
overlapping_tag_names(c, start, range_size) ==
    UNION {c[start + i + 1].tags : i \in 0..(range_size - 1)}

\* Variant of one token of the loop that skips a token the translatable
\* filter rejects, as Editor.run_nlp of gui.py did.
AddToken_filtered(st, token) ==
    LET c == st.cells
        start == Clamp(c, token.idx)
        end == Clamp(c, token.idx + Len(token.text))
        range_size == end - start
        new_token_tag == TAG_TOKEN(st.nextId + 1)
    IN IF ~filter_should_translate(token) THEN st
       ELSE IF range_size = 0 THEN [st EXCEPT !.raised = TRUE]
       ELSE IF \E tag \in overlapping_tag_names(c, start, range_size) :
                   is_token_tag(tag)
       THEN st
       ELSE [cells |-> tag_add(tag_add(c, new_token_tag, start, end),
                               TAG_TRANSLATABLE, start, end),
             token_tags |-> (new_token_tag :> token) @@ st.token_tags,
             nextId |-> st.nextId + 1,
             raised |-> FALSE]

\* Variant of one token of the loop without the test for a token tag that
\* is already on the token's range.
AddToken_retagging(st, token) ==
    LET c == st.cells
        start == Clamp(c, token.idx)
        end == Clamp(c, token.idx + Len(token.text))
        range_size == end - start
        new_token_tag == TAG_TOKEN(st.nextId + 1)
    IN IF range_size = 0 THEN [st EXCEPT !.raised = TRUE]
       ELSE [cells |-> tag_add(tag_add(c, new_token_tag, start, end),
                               TAG_TRANSLATABLE, start, end),
             token_tags |-> (new_token_tag :> token) @@ st.token_tags,
             nextId |-> st.nextId + 1,
             raised |-> FALSE]

\* Editor.add_tokens, one token of the loop.  st = [cells, token_tags,
\* nextId, raised].  Text.count(...) is None for an empty range, so
\* count(...)[0] raises TypeError and the loop is left.
AddToken(st, token) ==
    LET c == st.cells
        start == Clamp(c, token.idx)
        end == Clamp(c, token.idx + Len(token.text))
        range_size == end - start
        new_token_tag == TAG_TOKEN(st.nextId + 1)
    IN IF range_size = 0 THEN [st EXCEPT !.raised = TRUE]
       ELSE IF \E tag \in overlapping_tag_names(c, start, range_size) :
                   is_token_tag(tag)
       THEN st
       ELSE [cells |-> tag_add(tag_add(c, new_token_tag, start, end),
                               TAG_TRANSLATABLE, start, end),
             token_tags |-> (new_token_tag :> token) @@ st.token_tags,
             nextId |-> st.nextId + 1,
             raised |-> FALSE]

RECURSIVE AddTokensFrom(_, _, _)
AddTokensFrom(doc, k, st) ==
    IF k > Len(doc) \/ st.raised THEN st
    ELSE AddTokensFrom(doc, k + 1, AddToken(st, doc[k]))

\* Editor.add_tokens
add_tokens(doc, c, tt, nid) ==
    AddTokensFrom(doc, 1, [cells |-> c, token_tags |-> tt, nextId |-> nid,
                           raised |-> FALSE])

\* Editor.get_token_tag_for_event for a click on the character at p:
\* tag_names() lists tags in creation order, the first token tag with a
\* range around p is taken.
TokenTagsAt(c, p) == {tag \in c[p + 1].tags : is_token_tag(tag)}
get_token_tag_for_event(c, p) ==
    LET tag == CHOOSE t \in TokenTagsAt(c, p) :
                   \A t2 \in TokenTagsAt(c, p) : t[2] <= t2[2]
        range == CHOOSE r \in tag_ranges_(c, tag) :
                   is_index_in_range(p, r.start, r.end)
    IN [tag |-> tag, range |-> range]

\* Editor.get_token_tag_of_range: the first token tag with exactly the range
TokenTagsOfRange(c, tag_range) ==
    {tag \in get_tags_of_exactly_range(c, tag_range) : is_token_tag(tag)}
get_token_tag_of_range(c, tag_range) ==
    CHOOSE t \in TokenTagsOfRange(c, tag_range) :
        \A t2 \in TokenTagsOfRange(c, tag_range) : t[2] <= t2[2]

\* Variant: the separator is also appended to the token's own text.
WithSeparator_always(selected_token, translation) ==
    IF /\ selected_token.i + 1 < selected_token.doc_len
       /\ selected_token.nbor_pos_ # "PUNCT"
    THEN IF ~filter_start_of_new_word(selected_token.nbor_pos_)
         THEN translation \o <<"-">>
         ELSE translation \o <<" ">>
    ELSE translation

\* Variant: the space and the hyphen are exchanged.
WithSeparator_swapped(selected_token, translation) ==
    IF /\ selected_token.text # translation
       /\ selected_token.i + 1 < selected_token.doc_len
       /\ selected_token.nbor_pos_ # "PUNCT"
    THEN IF ~filter_start_of_new_word(selected_token.nbor_pos_)
         THEN translation \o <<" ">>
         ELSE translation \o <<"-">>
    ELSE translation

\* Editor.apply_picked_translation_to_selected_token: the text handed to
\* replace_text.
WithSeparator(selected_token, translation) ==
    IF /\ selected_token.text # translation
       /\ selected_token.i + 1 < selected_token.doc_len
       /\ selected_token.nbor_pos_ # "PUNCT"
    THEN IF ~filter_start_of_new_word(selected_token.nbor_pos_)
         THEN translation \o <<"-">>
         ELSE translation \o <<" ">>
    ELSE translation

\* Variant: the whole translatable range under the click is selected, not
\* the range of the token tag.
select_translatable_range(c, tt, p) ==
    IF TokenTagsAt(c, p) = {} THEN c
    ELSE LET token_tag == get_token_tag_for_event(c, p)
             clicked_range ==
                 CHOOSE r \in tag_ranges_(c, TAG_TRANSLATABLE) :
                     is_index_in_range(p, r.start, r.end)
         IN IF token_tag.tag \notin DOMAIN tt THEN c
            ELSE tag_add(remove_all_of_tag(c, TAG_SELECTED_TOKEN),
                         TAG_SELECTED_TOKEN,
                         clicked_range.start, clicked_range.end)

\* Variant: the selected tag is not removed before it is added.
select_without_removal(c, tt, p) ==
    IF TokenTagsAt(c, p) = {} THEN c
    ELSE LET token_tag == get_token_tag_for_event(c, p)
         IN IF token_tag.tag \notin DOMAIN tt THEN c
            ELSE tag_add(c, TAG_SELECTED_TOKEN,
                         token_tag.range.start, token_tag.range.end)

\* Editor.select_clicked_translatable_tag for a click on the character at
\* p: the cells afterwards.  Without a token tag under the click the handler
\* returns; a token tag missing from token_tags raises KeyError before any
\* tag is touched.
select_clicked_translatable_tag(c, tt, p) ==
    IF TokenTagsAt(c, p) = {} THEN c
    ELSE LET token_tag == get_token_tag_for_event(c, p)
         IN IF token_tag.tag \notin DOMAIN tt THEN c
            ELSE tag_add(remove_all_of_tag(c, TAG_SELECTED_TOKEN),
                         TAG_SELECTED_TOKEN,
                         token_tag.range.start, token_tag.range.end)

\* Editor.get_selected_token_tag returns a TagInfo: Selected has a range and
\* a token tag has exactly that range (else None, or the assertion fails),
\* and the token mapping knows the tag (else KeyError).
HasSelection(c, tt) ==
    /\ tag_ranges_(c, TAG_SELECTED_TOKEN) # {}
    /\ TokenTagsOfRange(c, FirstRange(c, TAG_SELECTED_TOKEN)) # {}
    /\ get_token_tag_of_range(c, FirstRange(c, TAG_SELECTED_TOKEN)) \in DOMAIN tt

\* Editor.get_selected_token_tag returns None: Selected has no range.
selected_is_none(c) == tag_ranges_(c, TAG_SELECTED_TOKEN) = {}
\* Editor.get_selected_token_tag raises: its assertion fails, no token tag
\* has exactly the first range of Selected.
selected_raises(c) ==
    /\ tag_ranges_(c, TAG_SELECTED_TOKEN) # {}
    /\ TokenTagsOfRange(c, FirstRange(c, TAG_SELECTED_TOKEN)) = {}

get_selected_token_tag(c) ==
    LET selected_range == FirstRange(c, TAG_SELECTED_TOKEN)
    IN [tag |-> get_token_tag_of_range(c, selected_range), range |-> selected_range]

\* Variant: without a selection the translation goes to the start of the
\* buffer.
apply_without_check(c, isLocked, tt, translation) ==
    IF ~HasSelection(c, tt) THEN TkInsert(c, isLocked, 0, translation)
    ELSE LET selected_token_tag == get_selected_token_tag(c)
             selected_token == tt[selected_token_tag.tag]
         IN replace_text(c, isLocked, selected_token_tag.range,
                         WithSeparator(selected_token, translation))

\* Editor.apply_picked_translation_to_selected_token: the cells afterwards.
apply_picked_translation_to_selected_token(c, isLocked, tt, translation) ==
    IF ~HasSelection(c, tt) THEN c
    ELSE LET selected_token_tag == get_selected_token_tag(c)
             selected_token == tt[selected_token_tag.tag]
         IN replace_text(c, isLocked, selected_token_tag.range,
                         WithSeparator(selected_token, translation))

\* Editor.set_text: reset_content, then insert at "1.0".
set_text(c, isLocked, txt) ==
    TkInsert(TkDelete(c, isLocked, 0, Len(c)), isLocked, 0, txt)

\* ------------------------------------------------------ the call queue
\* A queued call (UIFuture): fn and args, and for the analysis it belongs
\* to: the worker w, its rank k among the worker's calls, its rank seq among
\* all calls put on the queue.
Call(fn, args, w, k) == [fn |-> fn, args |-> args, w |-> w, k |-> k]

\* Queue.put
put(q, call, seq) == Append(q, call @@ [seq |-> seq])

\* Variant: the newest call is taken.
get_nowait_lifo(q) == [call |-> q[Len(q)], rest |-> SubSeq(q, 1, Len(q) - 1)]

\* Queue.get_nowait on a queue that is not empty
get_nowait(q) == [call |-> Head(q), rest |-> Tail(q)]

\* Variant: the stale tokens are cleaned before the tokenizer runs.
FirstBatch_cleaning(w) ==
    << Call("set_status", <<"Detecting tokens...">>, w, 1),
       Call("clean_stale_tokens", <<>>, w, 1),
       Call("get_and_lock_text", <<>>, w, 2) >>

\* The calls of the first queue_ui_calls of _threaded_nlp_task
FirstBatch(w) ==
    << Call("set_status", <<"Detecting tokens...">>, w, 1),
       Call("get_and_lock_text", <<>>, w, 2) >>

\* Variant of the second tuple that unlocks before it adds the tokens.
SecondBatch_unlock_first(w, doc) ==
    << Call("clean_stale_tokens", <<>>, w, 3),
       Call("set_status", <<"Marking detected tokens...">>, w, 4),
       Call("unlock_text", <<>>, w, 6),
       Call("add_tokens", <<doc>>, w, 5),
       Call("reset_status", <<>>, w, 7) >>

\* The calls of the second queue_ui_calls; self.tokens is read when the
\* tuple is built.
SecondBatch(w, doc) ==
    << Call("clean_stale_tokens", <<>>, w, 3),
       Call("set_status", <<"Marking detected tokens...">>, w, 4),
       Call("add_tokens", <<doc>>, w, 5),
       Call("unlock_text", <<>>, w, 6),
       Call("reset_status", <<>>, w, 7) >>

NoFuture == [done |-> FALSE, result |-> <<>>]

\* UIFuture._set_result, UIFuture._set_finished
set_result(fut, value) == [fut EXCEPT !.result = <<value>>]
set_finished(fut) == [fut EXCEPT !.done = TRUE]

\* Variant of UIFuture.run that sets the event before the result.
run_finished_first(fut, value) ==
    <<set_finished(fut), set_result(set_finished(fut), value)>>

\* UIFuture.run: the states of the future after each of its two statements,
\* value being what self._fn returned.
run(fut, value) ==
    <<set_result(fut, value), set_finished(set_result(fut, value))>>

\* UIFuture.wait returns self._result, None when it is not set.
None == <<"None">>
result_of(fut) == IF fut.result = <<>> THEN None ELSE fut.result[1]
NoTags == Restrict(<<>>, {})

Init ==
    /\ cells = <<Cell(NL, {})>>
    /\ locked = FALSE
    /\ status = ""
    /\ token_tags = NoTags
    /\ tokens = <<>>
    /\ nextId = 0
    /\ queue = <<>>
    /\ signals = 0
    /\ uiMode = "idle"
    /\ pc = [w \in Workers |-> "idle"]
    /\ text = [w \in Workers |-> <<>>]
    /\ future = [w \in Workers |-> NoFuture]
    /\ batch = [w \in Workers |-> <<>>]
    /\ enq = 0
    /\ lastRun = 0
    /\ lastK = [w \in Workers |-> 0]

editorVars == <<cells, locked, status, token_tags, tokens, nextId>>
queueVars == <<queue, signals, enq, lastRun, lastK>>
workerVars == <<pc, text, future, batch>>

\* ------------------------------------------- events of the interaction thread
\* The user types a character at p.
UserInsert(p, ch) ==
    /\ uiMode = "idle"
    /\ cells' = TkInsert(cells, locked, p, <<ch>>)
    /\ UNCHANGED <<locked, status, token_tags, tokens, nextId, queueVars,
                   uiMode, workerVars>>

\* The user deletes the character at p.
UserDelete(p) ==
    /\ uiMode = "idle"
    /\ cells' = TkDelete(cells, locked, p, p + 1)
    /\ UNCHANGED <<locked, status, token_tags, tokens, nextId, queueVars,
                   uiMode, workerVars>>

\* <Button-1> on a character tagged translatable.
Click(p) ==
    /\ uiMode = "idle"
    /\ TAG_TRANSLATABLE \in cells[p + 1].tags
    /\ cells' = select_clicked_translatable_tag(cells, token_tags, p)
    /\ UNCHANGED <<locked, status, token_tags, tokens, nextId, queueVars,
                   uiMode, workerVars>>

\* The user picks an entry of the translation combo box: the token's own
\* text or a translation.
Candidates ==
    Translations \cup
    (IF HasSelection(cells, token_tags)
     THEN {token_tags[get_selected_token_tag(cells).tag].text} ELSE {})

Apply(translation) ==
    /\ uiMode = "idle"
    /\ cells' = apply_picked_translation_to_selected_token(
                    cells, locked, token_tags, translation)
    /\ UNCHANGED <<locked, status, token_tags, tokens, nextId, queueVars,
                   uiMode, workerVars>>

\* The user imports a text file.
SetText(txt) ==
    /\ uiMode = "idle"
    /\ cells' = set_text(cells, locked, txt)
    /\ status' = ""
    /\ UNCHANGED <<locked, token_tags, tokens, nextId, queueVars, uiMode,
                   workerVars>>

\* Editor.detect_tokens: a new thread runs _threaded_nlp_task.
detect_tokens(w) ==
    /\ pc[w] = "idle"
    /\ pc' = [pc EXCEPT ![w] = "put1"]
    /\ batch' = [batch EXCEPT ![w] = FirstBatch(w)]

DetectTokens ==
    /\ uiMode = "idle"
    /\ \E w \in Workers :
          /\ \A v \in Workers : v < w => pc[v] # "idle"
          /\ detect_tokens(w)
    /\ UNCHANGED <<editorVars, queueVars, uiMode, text, future>>

\* ------------------------------------- a worker thread, _threaded_nlp_task
\* queue_ui_calls puts its calls one Queue.put at a time.
Put(w) ==
    /\ pc[w] \in {"put1", "put2"}
    /\ batch[w] # <<>>
    /\ queue' = put(queue, Head(batch[w]), enq + 1)
    /\ enq' = enq + 1
    /\ batch' = [batch EXCEPT ![w] = Tail(batch[w])]
    /\ pc' = [pc EXCEPT ![w] =
                IF Tail(batch[w]) # <<>> THEN pc[w]
                ELSE IF pc[w] = "put1" THEN "signal1" ELSE "signal2"]
    /\ UNCHANGED <<editorVars, signals, lastRun, lastK, uiMode, text, future>>

\* TkCallQueue.signal_process_ui_calls
Signal(w) ==
    /\ pc[w] \in {"signal1", "signal2"}
    /\ signals' = signals + 1
    /\ pc' = [pc EXCEPT ![w] = IF pc[w] = "signal1" THEN "wait" ELSE "done"]
    /\ UNCHANGED <<editorVars, queue, enq, lastRun, lastK, uiMode, text,
                   future, batch>>

\* text = text_future.wait()
Wait(w) ==
    /\ pc[w] = "wait"
    /\ future[w].done
    /\ text' = [text EXCEPT ![w] = result_of(future[w])]
    /\ pc' = [pc EXCEPT ![w] = "nlp"]
    /\ UNCHANGED <<editorVars, queueVars, uiMode, future, batch>>

\* self.tokens = self.settings.translator.nlp(text).  The thread's text and
\* future are not read again and are dropped.
Tokenize(w) ==
    /\ pc[w] = "nlp"
    /\ text[w] # None
    /\ \E doc \in nlp(text[w], w) : tokens' = doc
    /\ pc' = [pc EXCEPT ![w] = "build"]
    /\ text' = [text EXCEPT ![w] = <<>>]
    /\ future' = [future EXCEPT ![w] = NoFuture]
    /\ UNCHANGED <<cells, locked, status, token_tags, nextId, queueVars,
                   uiMode, batch>>

\* The tokenizer raises: the thread ends with the exception.
TokenizeFails(w) ==
    /\ pc[w] = "nlp"
    /\ pc' = [pc EXCEPT ![w] = "failed"]
    /\ text' = [text EXCEPT ![w] = <<>>]
    /\ future' = [future EXCEPT ![w] = NoFuture]
    /\ UNCHANGED <<editorVars, queueVars, uiMode, batch>>

\* The tuple of the second queue_ui_calls is built, reading self.tokens.
Build(w) ==
    /\ pc[w] = "build"
    /\ batch' = [batch EXCEPT ![w] = SecondBatch(w, tokens)]
    /\ pc' = [pc EXCEPT ![w] = "put2"]
    /\ UNCHANGED <<editorVars, queueVars, uiMode, text, future>>

WorkerStep(w) ==
    \/ Put(w)
    \/ Signal(w)
    \/ Wait(w)
    \/ Tokenize(w)
    \/ TokenizeFails(w)
    \/ Build(w)

\* --------------------------------- TkCallQueue._ui_call_handler
\* Tk delivers a pending <<ui_call>> event.
HandlerStart ==
    /\ uiMode = "idle"
    /\ signals > 0
    /\ signals' = signals - 1
    /\ uiMode' = "draining"
    /\ UNCHANGED <<editorVars, queue, enq, lastRun, lastK, workerVars>>

\* What call.run() does to the editor, and whether it raises.
RunEffect(call) ==
    CASE call.fn = "set_status" ->
            /\ status' = call.args[1]
            /\ UNCHANGED <<cells, locked, token_tags, nextId, future>>
      [] call.fn = "reset_status" ->
            /\ status' = ""
            /\ UNCHANGED <<cells, locked, token_tags, nextId, future>>
      [] call.fn = "get_and_lock_text" ->
            /\ locked' = TRUE
            /\ future' = [future EXCEPT ![call.w] =
                            run(NoFuture, GetText(cells))[1]]
            /\ UNCHANGED <<cells, status, token_tags, nextId>>
      [] call.fn = "unlock_text" ->
            /\ locked' = FALSE
            /\ UNCHANGED <<cells, status, token_tags, nextId, future>>
      [] call.fn = "clean_stale_tokens" ->
            /\ token_tags' = clean_stale_tokens(cells, token_tags)
            /\ UNCHANGED <<cells, locked, status, nextId, future>>
      [] call.fn = "add_tokens" ->
            LET st == add_tokens(call.args[1], cells, token_tags, nextId)
            IN /\ cells' = st.cells
               /\ token_tags' = st.token_tags
               /\ nextId' = st.nextId
               /\ UNCHANGED <<locked, status, future>>

Raises(call) ==
    /\ call.fn = "add_tokens"
    /\ add_tokens(call.args[1], cells, token_tags, nextId).raised

\* One turn of the handler's loop: get_nowait, then call.run().  An
\* exception of the call leaves the handler.
RunCall ==
    /\ uiMode = "draining"
    /\ queue # <<>>
    /\ LET got == get_nowait(queue)
       IN /\ queue' = got.rest
          /\ RunEffect(got.call)
          /\ lastRun' = got.call.seq
          /\ lastK' = [lastK EXCEPT ![got.call.w] = got.call.k]
          /\ uiMode' = IF Raises(got.call) THEN "idle"
                       ELSE IF got.call.fn = "get_and_lock_text"
                       THEN "finishing" ELSE "draining"
    /\ UNCHANGED <<tokens, signals, enq, pc, text, batch>>

\* The second statement of UIFuture.run for the future a thread waits for,
\* the one of get_and_lock_text, which returned the text of the buffer.  The
\* futures of the other calls are read by nobody, and for them RunCall is
\* all of run.
FinishCall ==
    /\ uiMode = "finishing"
    /\ \E w \in Workers :
          /\ future[w] = run(NoFuture, GetText(cells))[1]
          /\ future' = [future EXCEPT ![w] = run(NoFuture, GetText(cells))[2]]
    /\ uiMode' = "draining"
    /\ UNCHANGED <<editorVars, queueVars, pc, text, batch>>

\* get_nowait raises Empty: the handler returns.
HandlerEnd ==
    /\ uiMode = "draining"
    /\ queue = <<>>
    /\ uiMode' = "idle"
    /\ UNCHANGED <<editorVars, queueVars, workerVars>>

\* An analysis is in flight from detect_tokens until its thread has ended
\* and the interaction thread has run every call the thread queued.  The
\* editor is quiet when none is and no <<ui_call>> event is pending.
InFlight(w) ==
    \/ pc[w] \notin {"idle", "done", "failed"}
    \/ \E i \in 1..Len(queue) : queue[i].w = w
Quiet == signals = 0 /\ \A w \in Workers : ~InFlight(w)

\* The positions of the buffer's characters, and those a character can be
\* typed at.
CharPositions == 0..(Len(cells) - 2)
InsertPositions == 0..(Len(cells) - 1)

Threads ==
    \/ HandlerStart
    \/ RunCall
    \/ FinishCall
    \/ HandlerEnd
    \/ \E w \in Workers : WorkerStep(w)

\* The buffer holds at most n characters before its final newline.
Bounded(n) == Len(cells') - 1 <= n

\* The user edits and starts an analysis only while no analysis is in
\* flight, and clicks tokens and picks translations at any time.
Next ==
    \/ \E p \in InsertPositions, ch \in TypedChars :
          Quiet /\ UserInsert(p, ch) /\ Bounded(MaxLen)
    \/ \E p \in CharPositions : Quiet /\ UserDelete(p)
    \/ \E txt \in ImportTexts : Quiet /\ SetText(txt)
    \/ Quiet /\ DetectTokens
    \/ \E p \in InsertPositions : Click(p)
    \/ \E translation \in Candidates :
          Apply(translation) /\ Bounded(MaxLen)
    \/ Threads

Spec == Init /\ [][Next]_vars

\* The user starts analyses at any time, also while one is in flight;
\* the text is replaced by importing a file.
NextOverlap ==
    \/ \E txt \in ImportTexts : SetText(txt)
    \/ DetectTokens
    \/ Threads

SpecOverlap == Init /\ [][NextOverlap]_vars

\* The editor after a longer file was imported and analysed once (set_text,
\* then a complete _threaded_nlp_task); a second analysis may have taken its
\* snapshot and be in the tokenizer, the buffer locked.
InitSubst ==
    \E txt \in LongTexts, second \in BOOLEAN : \E doc \in nlp(txt, 1) :
        LET st == add_tokens(doc, set_text(<<Cell(NL, {})>>, FALSE, txt),
                             NoTags, 0)
            running(w) == second /\ w = 2
        IN /\ cells = st.cells
           /\ locked = second
           /\ status = (IF second THEN "Detecting tokens..." ELSE "")
           /\ token_tags = st.token_tags
           /\ tokens = doc
           /\ nextId = st.nextId
           /\ queue = <<>>
           /\ signals = 0
           /\ uiMode = "idle"
           /\ pc = [w \in Workers |-> IF w = 1 THEN "done"
                                      ELSE IF running(w) THEN "nlp" ELSE "idle"]
           /\ text = [w \in Workers |->
                        IF running(w) THEN GetText(st.cells) ELSE <<>>]
           /\ future = [w \in Workers |->
                          IF running(w)
                          THEN run(NoFuture, GetText(st.cells))[2]
                          ELSE NoFuture]
           /\ batch = [w \in Workers |-> <<>>]
           /\ enq = (IF second THEN 9 ELSE 7)
           /\ lastRun = (IF second THEN 9 ELSE 7)
           /\ lastK = [w \in Workers |-> IF w = 1 THEN 7
                                         ELSE IF running(w) THEN 2 ELSE 0]

\* The user clicks tokens, picks translations and edits; the threads are
\* not scheduled.
NextSubst ==
    \/ \E p \in InsertPositions, ch \in TypedChars :
          UserInsert(p, ch) /\ Bounded(MaxSubstLen)
    \/ \E p \in CharPositions : UserDelete(p)
    \/ \E txt \in ImportTexts : SetText(txt)
    \/ \E p \in InsertPositions : Click(p)
    \/ \E translation \in Candidates :
          Apply(translation) /\ Bounded(MaxSubstLen)

SpecSubst == InitSubst /\ [][NextSubst]_vars

\* Scheduling: Tk's event loop dispatches a pending <<ui_call>> event and
\* the handler runs on; a thread that can take a step takes one.  The user
\* is under no obligation.
Fairness ==
    /\ WF_vars(HandlerStart)
    /\ WF_vars(RunCall)
    /\ WF_vars(FinishCall)
    /\ WF_vars(HandlerEnd)
    /\ \A w \in Workers : WF_vars(WorkerStep(w))

\* The user imports a file into the empty editor, starts analyses at any
\* time, and deletes a character while an analysis is in the tokenizer.
NextLive ==
    \/ \E txt \in ImportTexts : GetText(cells) = <<>> /\ SetText(txt)
    \/ DetectTokens
    \/ \E p \in CharPositions :
          (\E w \in Workers : pc[w] = "nlp") /\ UserDelete(p)
    \/ Threads

SpecLive == Init /\ [][NextLive]_vars /\ Fairness

\* ---------------------------------------------------------------- claims
\* An action of worker w's analysis: a step of its thread, or the
\* interaction thread running a call the thread queued.
RunCallOf(w) == queue # <<>> /\ get_nowait(queue).call.w = w /\ RunCall
StepOf(w) == WorkerStep(w) \/ RunCallOf(w)

\* An event of the user handled by the interaction thread.
UserEvent ==
    \/ \E p \in InsertPositions, ch \in TypedChars : UserInsert(p, ch)
    \/ \E p \in CharPositions : UserDelete(p)
    \/ \E txt \in ImportTexts : SetText(txt)
    \/ \E p \in InsertPositions : Click(p)
    \/ \E translation \in Candidates : Apply(translation)
    \/ DetectTokens

\* A thread of _threaded_nlp_task is alive.
Alive(w) == pc[w] \notin {"idle", "done", "failed"}

\* C1: no two distinct token tags are on the same character, and every
\* range of a token tag is non-empty.
C1_AnchorsDisjoint ==
    /\ \A p \in 1..Len(cells) :
          Cardinality({tag \in cells[p].tags : is_token_tag(tag)}) <= 1
    /\ \A tag \in tag_query(cells) :
          \A r \in tag_ranges_(cells, tag) : r.start < r.end

\* C2: the selected tag has at most one range after every step, and a click
\* on a token leaves it on exactly the range of the clicked token.
C2_OneSelected ==
    [][/\ Cardinality(tag_ranges_(cells', TAG_SELECTED_TOKEN)) <= 1
       /\ \A p \in 0..(Len(cells) - 1) :
             (/\ Click(p)
              /\ TokenTagsAt(cells, p) # {}
              /\ get_token_tag_for_event(cells, p).tag \in DOMAIN token_tags)
             => tag_ranges_(cells', TAG_SELECTED_TOKEN)
                   = {get_token_tag_for_event(cells, p).range}]_vars

\* The first token was substituted and the selection has since moved to a
\* token further right that does not touch the buffer's first character.
C2_Reselected ==
    /\ cells[1].ch = "T"
    /\ \E r \in tag_ranges_(cells, TAG_SELECTED_TOKEN) : r.start >= 2

\* C3: a detect_tokens() call made while an analysis is running starts no
\* second worker: at most one worker thread is alive at any time.
C3_OneWorker == Cardinality({w \in Workers : Alive(w)}) <= 1

\* C4: from the call that takes the snapshot (the worker's 2nd call,
\* get_and_lock_text) until unlock_text (its 6th) has run, the buffer is
\* locked and no step changes the buffer text.
Analysing(w) == lastK[w] \in 2..5 /\ pc[w] # "failed"
C4_LockedWhileAnalysing ==
    [][(\E w \in Workers : Analysing(w))
          => (locked /\ GetText(cells') = GetText(cells))]_vars

\* C5: once an analysis whose tokenizer call failed has ended and no
\* analysis is in flight, the buffer is not locked.
C5_UnlockedAfterFailure ==
    ((\E w \in Workers : pc[w] = "failed") /\ (\A w \in Workers : ~InFlight(w)))
        => ~locked

\* C6: no step of an analysis up to its tokenizer call, the failing call
\* included, changes a tag of the buffer or the token mapping, and after
\* the failure the analysis takes no step.
BeforeTokens(w) == pc[w] \in {"put1", "signal1", "wait", "nlp"}
C6_FailureLeavesStore ==
    [][\A w \in Workers :
          /\ (BeforeTokens(w) /\ StepOf(w))
                => UNCHANGED <<cells, token_tags, nextId>>
          /\ (pc'[w] = "failed" /\ WorkerStep(w)) => UNCHANGED editorVars
          /\ pc[w] = "failed" => ~StepOf(w)]_vars

\* The tokenizer failed in an analysis of a buffer that has tokens.
C6_FailedWithTokens ==
    \E w \in Workers :
        /\ pc[w] = "failed"
        /\ DOMAIN token_tags # {}
        /\ \E p \in 1..Len(cells) : cells[p].tags # {}

\* C7: the queue holds exactly the calls put after the call that ran last,
\* in the order they were put, and the calls of one worker in the order of
\* its batches: the next call to run is always the oldest.
C7_Fifo ==
    /\ \A i \in 1..Len(queue) : queue[i].seq = lastRun + i
    /\ \A i \in 1..Len(queue) :
          queue[i].k = lastK[queue[i].w]
                         + Cardinality({j \in 1..i : queue[j].w = queue[i].w})

\* Calls of two analyses wait in the queue, interleaved, after some ran.
C7_Interleaved ==
    /\ Len(queue) >= 3
    /\ queue[1].w # queue[2].w
    /\ queue[3].w = queue[1].w
    /\ lastRun > 0

\* C8: while some but not all calls of a batch have run (the worker's
\* batches are its calls 1-2 and 3-7), the interaction thread handles no
\* user event and runs no call of another worker's batch.
BatchOpen(w) == lastK[w] \in {1, 3, 4, 5, 6}
C8_BatchAtomic ==
    [][\A w \in Workers : BatchOpen(w) =>
          /\ ~UserEvent
          /\ \A v \in Workers \ {w} : ~RunCallOf(v)]_vars

\* C9: no step of a worker thread changes the buffer, the tags, the token
\* mapping or any other field of the editor (self.tokens included).
C9_WorkerTouchesNothing ==
    [][\A w \in Workers : WorkerStep(w) => UNCHANGED editorVars]_vars

\* C10: after a substitution every tag that had a range inside the replaced
\* range has exactly the range of the inserted text, and that range holds
\* the inserted text.
InsertedText(translation) ==
    WithSeparator(token_tags[get_selected_token_tag(cells).tag], translation)
C10_TagsFollowSubstitution ==
    [][\A translation \in Candidates :
          (HasSelection(cells, token_tags) /\ Apply(translation)) =>
             LET old_range == get_selected_token_tag(cells).range
                 new_range == IndexRange(old_range.start,
                                  old_range.start + Len(InsertedText(translation)))
             IN /\ new_range.end <= Len(cells') - 1
                /\ SubSeq(GetText(cells'), new_range.start + 1, new_range.end)
                      = InsertedText(translation)
                /\ \A tag \in TagNames(cells) :
                      (\E r \in tag_ranges_(cells, tag) :
                          old_range.start <= r.start /\ r.end <= old_range.end)
                      => new_range \in tag_ranges_(cells', tag)]_vars

\* The token of the selected anchor, the anchor's range, and the buffer a
\* substitution with new_text leaves.
SelectedToken == token_tags[get_selected_token_tag(cells).tag]
SelectedRange == get_selected_token_tag(cells).range
Substituted(new_text) == replace_text(cells, locked, SelectedRange, new_text)
Separator(token) ==
    IF filter_start_of_new_word(token.nbor_pos_) THEN <<" ">> ELSE <<"-">>

\* C11: a substitution inserts the replacement with a separator appended if
\* the replacement differs from the token's text, the anchor does not end at
\* the end of the buffer and the token has a next token that is not
\* punctuation; else it inserts exactly the replacement.
BufferFinal == SelectedRange.end >= Len(cells) - 1
C11_SeparatorIff ==
    [][\A translation \in Candidates :
          (HasSelection(cells, token_tags) /\ Apply(translation)) =>
             cells' = Substituted(
                        IF /\ translation # SelectedToken.text
                           /\ ~BufferFinal
                           /\ SelectedToken.i + 1 < SelectedToken.doc_len
                           /\ SelectedToken.nbor_pos_ # "PUNCT"
                        THEN translation \o Separator(SelectedToken)
                        ELSE translation)]_vars

\* C12: when a substitution appends a separator, the inserted text is the
\* replacement followed by one character: a space if the next token starts
\* a new word, a hyphen otherwise.
AppendsSeparator(translation) ==
    /\ translation # SelectedToken.text
    /\ SelectedToken.i + 1 < SelectedToken.doc_len
    /\ SelectedToken.nbor_pos_ # "PUNCT"
C12_SpaceOrHyphen ==
    [][\A translation \in Candidates :
          (/\ HasSelection(cells, token_tags)
           /\ AppendsSeparator(translation)
           /\ Apply(translation)) =>
             LET new_text == translation \o Separator(SelectedToken)
                 start == SelectedRange.start
             IN /\ cells' = Substituted(new_text)
                /\ ~locked =>
                     /\ Len(cells') - 1 >= start + Len(translation) + 1
                     /\ SubSeq(GetText(cells'), start + 1,
                               start + Len(translation) + 1) = new_text]_vars

\* A translation was inserted with a space appended, before a noun.
C12_SpaceAppended ==
    /\ ~locked
    /\ Len(cells) >= 4
    /\ cells[1].ch = "T" /\ cells[2].ch = " " /\ cells[3].ch = "a"

\* The buffer text under the selected anchor.
SelectedContent ==
    SubSeq(GetText(cells), SelectedRange.start + 1,
           Min(SelectedRange.end, Len(cells) - 1))
\* A substitution left the buffer text and the ranges of the selected
\* anchor's tag as they were.
SameTextAndAnchor ==
    /\ GetText(cells') = GetText(cells)
    /\ tag_ranges_(cells', get_selected_token_tag(cells).tag)
          = tag_ranges_(cells, get_selected_token_tag(cells).tag)

StaleTags == {tag \in DOMAIN token_tags : tag_ranges_(cells, tag) = {}}
LiveTags == {tag \in DOMAIN token_tags : tag_ranges_(cells, tag) # {}}

\* C14: a substitution while the selected tag has no range changes neither
\* the buffer, nor a tag, nor the token mapping.
C14_NoSelectionNoOp ==
    [][\A translation \in Candidates :
          (selected_is_none(cells) /\ Apply(translation))
             => UNCHANGED <<cells, token_tags>>]_vars

\* A token was substituted, other anchors are left, and nothing is selected:
\* the text of the selected anchor was deleted.
C14_SelectionDeleted ==
    /\ selected_is_none(cells)
    /\ LiveTags # {}
    /\ \E p \in 1..(Len(cells) - 1) : cells[p].ch = "T"

\* C15: a deletion by the user does not make get_selected_token_tag raise,
\* and once it has removed the last character under the selected anchor
\* get_selected_token_tag returns None.
C15_DeletedSelectionIsNone ==
    [][\A p \in CharPositions :
          (UserDelete(p) /\ ~locked /\ ~selected_raises(cells)) =>
             /\ ~selected_raises(cells')
             /\ (/\ HasSelection(cells, token_tags)
                 /\ SelectedRange = IndexRange(p, p + 1))
                   => selected_is_none(cells')]_vars

\* A token was substituted and its anchor is left, the text of another
\* anchor was deleted, and nothing is selected: the selection had moved to
\* the anchor that was deleted.
C15_AnchorTextDeleted ==
    /\ ~locked
    /\ selected_is_none(cells)
    /\ StaleTags # {}
    /\ \E p \in 1..(Len(cells) - 1) :
          cells[p].ch = "T" /\ cells[p].tags \cap LiveTags # {}

\* C16: when add_tokens of an analysis has run, clean_stale_tokens would
\* remove no anchor: it leaves the token mapping, and with it every anchor
\* and range, as it is; the calls that end the analysis (unlock_text,
\* reset_status) keep it so.
NothingStale(c, tt) == clean_stale_tokens(c, tt) = tt
C16_CleanAfterDetectIsIdentity ==
    [][\A w \in Workers :
          /\ (RunCallOf(w) /\ lastK'[w] = 5 /\ uiMode' = "draining")
                => NothingStale(cells', token_tags')
          /\ (RunCallOf(w) /\ lastK'[w] \in {6, 7}
                /\ NothingStale(cells, token_tags))
                => NothingStale(cells', token_tags')]_vars

\* C17: every range of a token tag lies within a range of the translatable
\* tag.
C17_AnchorsInTranslatable ==
    \A tag \in {t \in TagNames(cells) : is_token_tag(t)} :
        \A r \in tag_ranges_(cells, tag) :
            \E tr \in tag_ranges_(cells, TAG_TRANSLATABLE) :
                tr.start <= r.start /\ r.end <= tr.end

\* After an analysis, a token next to another token was substituted on an
\* unlocked buffer and carries its anchor.
C17_SubstitutedAnchor ==
    /\ ~locked
    /\ Len(cells) = 3
    /\ cells[2].ch = "T"
    /\ \E tag \in cells[2].tags : is_token_tag(tag)
    /\ \E tag \in cells[1].tags : is_token_tag(tag) /\ tag \notin cells[2].tags

\* The guards of the threads' steps: the handler can start or go on, a
\* worker thread has a statement to run.
HandlerCanStep == (uiMode = "idle" /\ signals > 0) \/ uiMode # "idle"

WorkerCanStep(w) ==
    \/ pc[w] \in {"put1", "put2", "signal1", "signal2", "nlp", "build"}
    \/ pc[w] = "wait" /\ future[w].done

ThreadsCanStep == HandlerCanStep \/ \E w \in Workers : WorkerCanStep(w)

\* C18: a call put on the queue is run in the end and a thread waiting for
\* its future goes on.  That needs, in every state where a call is queued or
\* a thread waits, a step of the interaction thread's handler or of a worker
\* thread that can be taken: where there is none, only the user can act and
\* the call stays in the queue.
C18_QueuedCallCanRun ==
    (queue # <<>> \/ \E w \in Workers : pc[w] = "wait") => ThreadsCanStep

\* C19: an analysis ends with the buffer unlocked and the status reset.
\* That needs, in every state where the buffer is locked or a status is
\* shown, a step of the handler or of a worker thread that can be taken.
C19_LockedAnalysisCanGoOn ==
    (locked \/ status # "") => ThreadsCanStep

\* Every token of doc that still has text in the buffer c lies under a
\* token tag.
AllAnchored(doc, c) ==
    \A i \in 1..Len(doc) :
        LET start == Clamp(c, doc[i].idx)
            end == Clamp(c, doc[i].idx + Len(doc[i].text))
        IN end > start =>
              \E tag \in overlapping_tag_names(c, start, end - start) :
                  is_token_tag(tag)

\* C20: the calls of one reconciliation run in the order of the tuple.
\* clean_stale_tokens has removed the stale entries before set_status and
\* add_tokens of the same analysis run, only add_tokens creates token tags,
\* and unlock_text of the analysis runs directly after its add_tokens, which
\* has by then put every token of the analysis under a token tag.
C20_ReconciliationOrdered ==
    [][\A w \in Workers : RunCallOf(w) =>
          LET call == get_nowait(queue).call
          IN /\ call.k = 3 => NothingStale(cells', token_tags')
             /\ call.k = 4 => lastK[w] = 3
             /\ call.k = 5 => lastK[w] = 4 /\ AllAnchored(call.args[1], cells')
             /\ call.k = 6 => lastK[w] = 5
             /\ nextId' # nextId => call.k = 5]_vars

\* An analysis has unlocked the buffer after it removed a stale entry and
\* added token tags.
C20_ReconciledAndUnlocked ==
    /\ \E w \in Workers : lastK[w] = 6
    /\ ~locked
    /\ DOMAIN token_tags # {}
    /\ nextId > Cardinality(DOMAIN token_tags)

\* The range of a token of an analysis in the buffer c, as add_tokens
\* computes it.
TokenRange(c, token) ==
    IndexRange(Clamp(c, token.idx), Clamp(c, token.idx + Len(token.text)))

\* A token of an analysis has text in c that no token tag covers yet.
Untagged(c, token) ==
    LET r == TokenRange(c, token)
    IN /\ r.end > r.start
       /\ ~\E tag \in overlapping_tag_names(c, r.start, r.end - r.start) :
              is_token_tag(tag)

\* C21 as stated: every token tag of the mapping maps to a token that passes
\* filter_should_translate.
C21_AnchorsAreTranslatable ==
    \A tag \in DOMAIN token_tags : filter_should_translate(token_tags[tag])

\* C21 as amended: add_tokens creates a token tag for every token of its
\* analysis whose text no token tag covers yet, whether or not the token
\* passes filter_should_translate; every tag it creates maps to a token of
\* that analysis and lies, with the translatable tag, on that token's range.
C21_AnchorsForEveryToken ==
    [][\A w \in Workers :
          (RunCallOf(w) /\ get_nowait(queue).call.k = 5) =>
             LET doc == get_nowait(queue).call.args[1]
                 created == DOMAIN token_tags' \ DOMAIN token_tags
             IN /\ \A tag \in created :
                      \E i \in 1..Len(doc) :
                         /\ token_tags'[tag] = doc[i]
                         /\ tag_ranges_(cells', tag) = {TokenRange(cells', doc[i])}
                         /\ \A q \in TokenRange(cells', doc[i]).start ..
                                     (TokenRange(cells', doc[i]).end - 1) :
                               TAG_TRANSLATABLE \in cells'[q + 1].tags
                /\ \A i \in 1..Len(doc) :
                      Untagged(cells, doc[i]) =>
                         \E tag \in created : token_tags'[tag] = doc[i]]_vars

\* A token that filter_should_translate rejects has a token tag with a range.
C21_UntranslatableAnchored ==
    \E tag \in DOMAIN token_tags :
        /\ ~filter_should_translate(token_tags[tag])
        /\ tag_ranges_(cells, tag) # {}

\* C22: clean_stale_tokens removes from the token mapping exactly the tags
\* that have no range in the buffer and keeps every other entry with its
\* token; it changes neither the text nor a tag that is on a character;
\* afterwards every tag of the mapping has a range.
C22_CleanRemovesExactlyStale ==
    [][\A w \in Workers :
          (RunCallOf(w) /\ get_nowait(queue).call.k = 3) =>
             /\ DOMAIN token_tags' = LiveTags
             /\ \A tag \in LiveTags : token_tags'[tag] = token_tags[tag]
             /\ cells' = cells
             /\ \A tag \in DOMAIN token_tags' :
                   tag_ranges_(cells', tag) # {}]_vars

\* clean_stale_tokens of an analysis was the last call run: it removed an
\* entry and kept another.
C22_StaleRemovedLiveKept ==
    /\ \E w \in Workers : lastK[w] = 3
    /\ DOMAIN token_tags # {}
    /\ nextId > Cardinality(DOMAIN token_tags)

\* The texts replace_text is tried with.
ReplaceTexts == {<<>>, <<"T">>, <<"T", " ">>}

\* C23: for every range of the buffer and every text, replace_text on the
\* unlocked buffer leaves the text before the range, then the new text, then
\* the text after the range, and the range it returns starts where the range
\* started and holds the new text.
C23_ReplaceSplices ==
    \A s \in 0..(Len(cells) - 1) : \A e \in s..Len(cells) :
        \A new_text \in ReplaceTexts :
            LET txt == GetText(cells)
                after == GetText(replace_text(cells, FALSE, IndexRange(s, e),
                                              new_text))
                ret == replace_text_result(IndexRange(s, e), new_text)
            IN /\ after = SubSeq(txt, 1, s) \o new_text
                             \o SubSeq(txt, Min(e, Len(txt)) + 1, Len(txt))
               /\ ret.start = s
               /\ SubSeq(after, ret.start + 1, ret.end) = new_text

\* The token in the middle of the imported text was substituted in the
\* unlocked buffer; the text before and after it is left.
C23_MiddleReplaced ==
    /\ ~locked
    /\ Len(cells) >= 4
    /\ cells[1].ch \in {"a", "o"}
    /\ cells[2].ch = "T"
    /\ cells[Len(cells) - 1].ch \in {"a", "o"}

\* C24: when text_future.wait() returns in a thread, get_and_lock_text of
\* that thread has run on the interaction thread and run() has left it, and
\* the value wait() returns is the text get_and_lock_text returned, which is
\* still the text of the buffer.
C24_WaitReturnsCallsValue ==
    [][\A w \in Workers :
          Wait(w) =>
             /\ lastK[w] >= 2
             /\ ~(uiMode = "finishing" /\ ~future[w].done)
             /\ future[w].done
             /\ future[w].result = <<GetText(cells)>>
             /\ text'[w] = GetText(cells)]_vars

\* A thread has the text of the locked buffer from wait() and is in the
\* tokenizer.
C24_WaitReturned ==
    \E w \in Workers :
        /\ pc[w] = "nlp"
        /\ locked
        /\ text[w] # <<>>
        /\ text[w] = GetText(cells)

\* C25: a click on an anchor fills the combo box with the token's text
\* first, then the phonemes if there are any, then the translations of the
\* dictionary in its order; there are translations only for a token that
\* passes filter_should_translate.
C25_CandidatesOrdered ==
    [][\A p \in InsertPositions :
          (Click(p) /\ cells' # cells) =>
             \A phonemes \in Phonemes, glosses \in Glosses :
                LET token == token_tags[get_token_tag_for_event(cells, p).tag]
                    values == update_possible_translations(token, phonemes,
                                                           glosses)
                    rest == SubSeq(values, 2 + Len(phonemes), Len(values))
                IN /\ values[1] = token.text
                   /\ SubSeq(values, 2, 1 + Len(phonemes)) = phonemes
                   /\ rest \in {<<>>, glosses}
                   /\ rest # <<>> => filter_should_translate(token)]_vars

\* The token that was clicked last, and is selected, has entries in the
\* dictionary and does not pass filter_should_translate.
C25_UntranslatableActivated ==
    /\ HasSelection(cells, token_tags)
    /\ has_dictionary_pos(SelectedToken.pos_)
    /\ ~filter_should_translate(SelectedToken)

\* C26: when add_tokens of an analysis has run, every token of the token
\* mapping is a token of the Doc of that analysis.
C26_TokensOfLatestPass ==
    [][\A w \in Workers :
          (RunCallOf(w) /\ get_nowait(queue).call.k = 5) =>
             \A tag \in DOMAIN token_tags' : token_tags'[tag].doc = w]_vars

\* The characters of the buffer c in the range r.
TextIn(c, r) == [k \in 1..(r.end - r.start) |-> c[r.start + k].ch]

\* C27: the text under every token tag that add_tokens creates is the text
\* of the token the tag maps to.
C27_AnchorCoversTokenText ==
    [][\A w \in Workers :
          (RunCallOf(w) /\ get_nowait(queue).call.k = 5) =>
             \A tag \in DOMAIN token_tags' \ DOMAIN token_tags :
                TextIn(cells', FirstRange(cells', tag)) = token_tags'[tag].text]_vars

\* C28: every token tag that is on a character of the buffer has an entry
\* in the token mapping.
C28_LiveAnchorsAreMapped ==
    \A p \in 1..Len(cells) :
        \A tag \in cells[p].tags : is_token_tag(tag) => tag \in DOMAIN token_tags

\* A token is selected after a second analysis removed the entry of a
\* deleted token: the click found the token of a tag that was kept.
C28_ClickedAfterCleaning ==
    /\ HasSelection(cells, token_tags)
    /\ StaleTags = {}
    /\ nextId > Cardinality(DOMAIN token_tags)
    /\ \A w \in Workers : lastK[w] = 7

\* C29: whenever the selected tag has a range, a token tag has exactly the
\* first range of the selected tag: the assertion of get_selected_token_tag
\* holds.
C29_SelectedHasAnchor ==
    tag_ranges_(cells, TAG_SELECTED_TOKEN) # {} =>
        \E tag \in TagNames(cells) :
            /\ is_token_tag(tag)
            /\ FirstRange(cells, TAG_SELECTED_TOKEN) \in tag_ranges_(cells, tag)

\* The selected tag lies on two characters and another token tag lies on
\* the second only: a translation was picked while the buffer was locked,
\* and the selection still has its token tag.
C29_SelectedOverTwoAnchors ==
    /\ tag_ranges_(cells, TAG_SELECTED_TOKEN) = {IndexRange(0, 2)}
    /\ \E tag \in TagNames(cells) :
          is_token_tag(tag) /\ tag_ranges_(cells, tag) = {IndexRange(1, 2)}

\* C30: a call that raises does not keep the calls queued behind it from
\* running: the handler goes on with them, or at least an event or a thread
\* is left that makes the handler run again.
C30_CallsBehindRaisingCallRun ==
    [][(RunCall /\ Raises(get_nowait(queue).call) /\ queue' # <<>>) =>
          (uiMode' = "draining" \/ ThreadsCanStep')]_vars

\* The cells after the selected anchor is substituted with translation and
\* then with the text of its token.
RoundTrip(translation) ==
    apply_picked_translation_to_selected_token(
        apply_picked_translation_to_selected_token(
            cells, locked, token_tags, translation),
        locked, token_tags, SelectedToken.text)

\* The text and the ranges of the selected anchor's tag are in c what they
\* are in the buffer.
Restored(c) ==
    /\ GetText(c) = GetText(cells)
    /\ tag_ranges_(c, get_selected_token_tag(cells).tag)
          = tag_ranges_(cells, get_selected_token_tag(cells).tag)

SecondPassDocs(c, doc) ==
    {d \in nlp(GetText(c), MaxPasses + 1) :
        /\ Len(d) = Len(doc)
        /\ \A i \in 1..Len(d) : d[i].text = doc[i].text /\ d[i].idx = doc[i].idx}

\* The reconciliation of an analysis with Doc d (clean_stale_tokens, then
\* add_tokens) would leave the cells, the token mapping and the counter of
\* the tags as they are in c, tt, nid.
ReconciliationChangesNothing(d, c, tt, nid) ==
    LET cleaned == clean_stale_tokens(c, tt)
        st == add_tokens(d, c, cleaned, nid)
    IN /\ cleaned = tt
       /\ ~st.raised
       /\ st.cells = c
       /\ st.token_tags = tt
       /\ st.nextId = nid

\* C32: when add_tokens of an analysis has run, a second analysis of the
\* same text, with no edit in between, changes nothing: its clean_stale_tokens
\* removes no anchor and its add_tokens skips every token, so the anchors,
\* their ranges and the token mapping are after the second pass what they
\* were after the first.
C32_SecondPassChangesNothing ==
    [][\A w \in Workers :
          (RunCallOf(w) /\ lastK'[w] = 5 /\ uiMode' = "draining") =>
              LET doc == get_nowait(queue).call.args[1]
              IN /\ SecondPassDocs(cells', doc) # {}
                 /\ \A d \in SecondPassDocs(cells', doc) :
                       ReconciliationChangesNothing(d, cells', token_tags',
                                                    nextId')]_vars

\* Two analyses have run to their end one after the other on a text of two
\* tokens: every anchor maps to a token of the first, and each token of the
\* second has the anchor of the first one's token on exactly its range.
C32_SecondPassSkippedAll ==
    /\ Quiet
    /\ \A w \in Workers : lastK[w] = 7
    /\ Len(tokens) = 2
    /\ \A i \in 1..Len(tokens) : tokens[i].doc = 2
    /\ \A tag \in DOMAIN token_tags : token_tags[tag].doc = 1
    /\ \A i \in 1..Len(tokens) :
          \E tag \in DOMAIN token_tags :
              /\ token_tags[tag] = [tokens[i] EXCEPT !.doc = 1]
              /\ tag_ranges_(cells, tag) = {TokenRange(cells, tokens[i])}

====
